---- MODULE Spec2Model ----
(***************************************************************************)
(* The token / pagination / error-handling pipeline of the mail scripts:   *)
(*   do_email/do_email_search.py    (variant "do_email")                   *)
(*   email_do/do_email_search.py    (variant "email_do")                   *)
(*   O365/EmailScan/email_scan.py   (variant "email_scan")                 *)
(*   Office365API/get_user_email.py (variant "get_user_email")             *)
(* One behaviour is one run of one script.  The identity endpoint, the     *)
(* mail server and the clock are the environment: their answers are        *)
(* nondeterministic choices.  Every loop iteration of a fetcher (one HTTP  *)
(* page request and everything the code does with its answer, including    *)
(* the return to the main loop when the folder ends) is one action.        *)
(* A pair is a mailbox with a folder the server knows.  The client-side     *)
(* post-filters (domain, date, sender) are outside this module's scope:    *)
(* all_final_messages is the sequence the main loop has accumulated from   *)
(* the fetchers, which is the output when no filter term is configured.    *)
(***************************************************************************)
EXTENDS Integers, Sequences, FiniteSets, TLC

\* ---- program constants --------------------------------------------------
TOKEN_LIFETIME == 3600
TOKEN_REFRESH_MARGIN == 300
PAGE_LIMIT == 100
MSG_CAP == 1000

\* ---- bounds of the model ------------------------------------------------
MaxPairs == 2
Max401 == 2
MaxTicks == 1
MaxRequests == 103

Variants == {"do_email", "email_do", "email_scan", "get_user_email"}

\* seconds the clock advances in one Tick
TickSteps == {3600}

\* ages (seconds) of the token found in the store at start-up
CachedAges == {3299, 3300, 3599, 3600}

VARIABLES
  variant,            \* which script runs
  effective_top_none, \* get_user_email: no count given, so pages are followed
  npairs,             \* number of (mailbox, folder) pairs configured
  scripts,            \* the server's content per pair: pages and page sizes
  budget,             \* what the environment may still do: 401 answers, ticks
  now,                \* the clock, in seconds
  store,              \* the token store (.env): ACCESS_TOKEN and its timestamp
  pc,                 \* "start", "fetch", "done", "aborted"
  access_token,       \* the token the main routine holds
  hdr,                \* the token in the fetcher's Authorization header
  minted,             \* number of tokens the identity endpoint has issued
  pair,               \* index of the pair being fetched
  url,                \* page the next request asks for; 0 is None
  page_count,         \* the fetcher's page counter
  all_messages,       \* the fetcher's accumulated messages of this folder
  all_final_messages, \* what the main loop has accumulated
  tm,                 \* log of the start-up get_access_token call
  tokReqs,            \* token requests issued in this run
  storeWrites,        \* writes of the token store in this run
  fail,               \* log of a failed token request
  apiReqs,            \* mail API requests issued in this run
  fReqs,              \* page requests issued for the current folder
  fTok,               \* token requests issued while fetching the current folder
  f401,               \* 401 answers received for the current folder
  p401,               \* token refreshes triggered by 401s on the current page
  okPages,            \* pages of the current folder answered with 200
  pending,            \* the retry a 401 handler has scheduled
  lastReq,            \* the last page request sent
  lastResp,           \* the answer to it
  fres,               \* summary of the last folder whose fetch ended
  visited             \* pairs whose fetch has begun

runVars == <<variant, effective_top_none, npairs, scripts, budget, now, store, pc,
             access_token, hdr, minted, pair, url, page_count, all_messages,
             all_final_messages, tm, tokReqs, storeWrites, fail, apiReqs, fReqs,
             fTok, f401, p401, okPages, pending, lastReq, lastResp, fres, visited>>

\* ---- tokens and the token store ------------------------------------------
NoToken == [id |-> 0, issued |-> 0]

NoStore == [kind |-> "none", token |-> 0, ts |-> 0]

\* The stores a run can find: nothing cached, a token with an unparseable
\* timestamp, a token (id 1) with a timestamp of some age.
InitialStores ==
  {NoStore, [kind |-> "bad", token |-> 1, ts |-> 0]}
    \cup {[kind |-> "ok", token |-> 1, ts |-> 0 - a] : a \in CachedAges}

Margin(v) == IF v \in {"do_email", "email_do"} THEN TOKEN_REFRESH_MARGIN ELSE 0

\* is_token_expired with the refresh margin taken for the lifetime
is_token_expired_margin(v, st, t) ==
  IF st.kind # "ok" THEN TRUE ELSE t >= st.ts + TOKEN_REFRESH_MARGIN

\* is_token_expired with the boundary age still counted as valid
is_token_expired_gt(v, st, t) ==
  IF st.kind # "ok" THEN TRUE
  ELSE IF v \in {"do_email", "email_do"}
       THEN t > st.ts + (TOKEN_LIFETIME - TOKEN_REFRESH_MARGIN)
       ELSE ~(t - st.ts <= TOKEN_LIFETIME)

\* is_token_expired (do_email, email_do) and the cached-token test of
\* get_access_token (email_scan) / generate_access_token (get_user_email).
is_token_expired(v, st, t) ==
  IF st.kind # "ok" THEN TRUE
  ELSE IF v \in {"do_email", "email_do"}
       THEN t >= st.ts + (TOKEN_LIFETIME - TOKEN_REFRESH_MARGIN)
       ELSE ~(t - st.ts < TOKEN_LIFETIME)

\* save_token_to_env / _save_token_to_env / update_env_file
save_token(st, tok, t) == [kind |-> "ok", token |-> tok, ts |-> t]

\* ---- the server's content ------------------------------------------------
Script(n, size, last, endless) ==
  [n |-> n, size |-> size, last |-> last, endless |-> endless]

ShortScripts == {Script(1, 1, 1, FALSE), Script(2, 2, 1, FALSE)}

LongScripts ==
  {Script(2, 2, 1, FALSE), Script(12, 100, 100, FALSE), Script(102, 0, 1, FALSE),
   Script(1, 0, 0, TRUE), Script(2, 1000, 1, FALSE)}

PageSize(s, p) == IF ~s.endless /\ p = s.n THEN s.last ELSE s.size

\* the messages of page p of pair pr: the value list of the response
Page(s, pr, p) == [k \in 1..PageSize(s, p) |-> <<pr, p, k>>]

\* the @odata.nextLink of page p: the next page, or 0 for none
NextLink(s, p) == IF s.endless \/ p < s.n THEN p + 1 ELSE 0

RECURSIVE Pages(_, _, _)
\* pages 1..p of pair pr, concatenated in page order
Pages(s, pr, p) == IF p = 0 THEN <<>> ELSE Pages(s, pr, p - 1) \o Page(s, pr, p)

Take(seq, n) == IF Len(seq) <= n THEN seq ELSE SubSeq(seq, 1, n)

\* ---- what differs between the scripts ------------------------------------
\* the fetchers whose HTTPError handler tests for status 401
Handles401(v) == v \in {"do_email", "email_do"}

\* AfterOk with the page put in front of the accumulated messages
AfterOk_prepend(v, msgs, pcnt, page, nxt, etn) ==
  [msgs |-> page \o msgs, page_count |-> pcnt + 1, url |-> nxt]

\* The state of the pagination loop after a page answered with 200:
\* the accumulated messages, the page counter, and the page to ask for next
\* (0 when the loop ends).
AfterOk(v, msgs, pcnt, page, nxt, etn) ==
  CASE v \in {"do_email", "email_do"} ->
         [msgs |-> msgs \o page, page_count |-> pcnt + 1, url |-> nxt]
    [] v = "email_scan" ->
         IF Len(msgs \o page) >= MSG_CAP
         THEN [msgs |-> Take(msgs \o page, MSG_CAP), page_count |-> pcnt, url |-> 0]
         ELSE [msgs |-> msgs \o page, page_count |-> pcnt + 1,
                  url |-> IF pcnt + 1 > PAGE_LIMIT THEN 0 ELSE nxt]
    [] v = "get_user_email" ->
         [msgs |-> msgs \o page, page_count |-> pcnt + 1,
             url |-> IF etn /\ ~(pcnt + 1 > PAGE_LIMIT) THEN nxt ELSE 0]

\* OnError with the partial result dropped by every fetcher
OnError_discard(v, msgs) == <<>>

\* What a folder contributes to the main loop's list when a page request
\* fails: the fetcher's return value after break (do_email, email_do), the
\* folder_messages extended after break (email_scan), nothing when the
\* exception skips all_messages.extend (get_user_email).
OnError(v, msgs) == IF v = "get_user_email" THEN <<>> ELSE msgs

\* ---- ghost records -------------------------------------------------------
NoReq == [sent |-> FALSE, pair |-> 0, page |-> 0, tok |-> 0, age |-> 0,
             retry |-> FALSE, expPage |-> 0, expTok |-> 0]

NoPending == [on |-> FALSE, page |-> 0, tok |-> 0]

NoFres == [pair |-> 0, err |-> FALSE, reqs |-> 0, n401 |-> 0, tokReqs |-> 0,
              okPages |-> 0, msgs |-> <<>>]

NoTm == [called |-> FALSE, at |-> 0, before |-> NoStore, ok |-> FALSE, ret |-> 0,
         reqs |-> 0, writes |-> 0, stored |-> NoStore]

NoFail == [on |-> FALSE, tokReqs |-> 0, apiReqs |-> 0]

\* ---- the recipient and sender filters -----------------------------------
\* One folder's messages on their way from the fetcher through the client-side
\* filters of the main routine to the presentation.
VARIABLES
  fl_variant,         \* which script filters: do_email, email_do, get_user_email
  fl_api,             \* do_email: api_method, "filter" or "search"
  fl_domains,         \* the terms handed to the filter (user_domains,
                      \* FILTER_DOMAINS, from_email_addresses)
  fl_input,           \* the messages the fetcher returned
  fl_messages,        \* the main routine's message list
  fl_pc,              \* "off", "fetched", "merged", "done"
  fl_call,            \* log of the filter call: arguments and returned list
  fl_ext              \* log of the has_external_recipients calls of the final step

filterVars == <<fl_variant, fl_api, fl_domains, fl_input, fl_messages, fl_pc,
                fl_call, fl_ext>>

NoCall == [called |-> FALSE, messages |-> <<>>, domains |-> <<>>, ret |-> <<>>]

NoExt == [called |-> FALSE, messages |-> <<>>, rets |-> <<>>]

FilterIdle ==
  /\ fl_variant = "none"
  /\ fl_api = "none"
  /\ fl_domains = <<>>
  /\ fl_input = <<>>
  /\ fl_messages = <<>>
  /\ fl_pc = "off"
  /\ fl_call = NoCall
  /\ fl_ext = NoExt

\* ---- the token store as a file --------------------------------------------
VARIABLES
  st_text,            \* the content of the .env file, character by character
  st_saves,           \* token saves made so far
  st_saved,           \* the values of the last save: token and timestamp
  st_before           \* the content of the file before the last save

storeVars == <<st_text, st_saves, st_saved, st_before>>

NoSaved == [token |-> 0, now |-> 0]

StoreIdle ==
  /\ st_text = <<>>
  /\ st_saves = 0
  /\ st_saved = NoSaved
  /\ st_before = <<>>

\* ---- date range and order of the result ----------------------------------
VARIABLES
  dt_variant,         \* do_email, email_scan, get_user_email, get_user_email_search
  dt_api,             \* do_email: api_method; the others have one strategy
  dt_sort,            \* $orderby direction sent to the server: asc, desc, none
  dt_folders,         \* per folder, the timestamps of the messages the server
                      \* returned, in the order returned
  dt_messages,        \* the client's message list (all_messages, filtered, ...)
  dt_pc               \* "off", "fetched", "filtered", "shown", "aborted"

dateVars == <<dt_variant, dt_api, dt_sort, dt_folders, dt_messages, dt_pc>>

DateIdle ==
  /\ dt_variant = "none"
  /\ dt_api = "none"
  /\ dt_sort = "none"
  /\ dt_folders = <<>>
  /\ dt_messages = <<>>
  /\ dt_pc = "off"

\* ---- folder resolution and the message requests ---------------------------
VARIABLES
  fo_variant,         \* email_scan, get_user_email_search, do_email
  fo_args,            \* the arguments of the run: entry point, api method,
                      \* number of sender/domain terms, dates given, count given
  fo_folders,         \* the folder names requested, in order
  fo_i,               \* index of the folder the loop is at
  fo_pc,              \* "off", "resolve", "query", "done"
  fo_folder_ids,      \* email_scan: the dict folder_ids, in insertion order
  fo_cache,           \* get_user_email_search: get_folder_id._cache
  fo_lookups,         \* log of the resolver calls
  fo_requests         \* log of the requests sent to a message collection

folderVars == <<fo_variant, fo_args, fo_folders, fo_i, fo_pc, fo_folder_ids,
                fo_cache, fo_lookups, fo_requests>>

NoArgs == [entry |-> "none", api |-> "none", terms |-> 0, mindate |-> FALSE,
           maxdate |-> FALSE, top |-> FALSE]

FolderIdle ==
  /\ fo_variant = "none"
  /\ fo_args = NoArgs
  /\ fo_folders = <<>>
  /\ fo_i = 0
  /\ fo_pc = "off"
  /\ fo_folder_ids = <<>>
  /\ fo_cache = {}
  /\ fo_lookups = <<>>
  /\ fo_requests = <<>>

\* ---- from the pages of one folder to the printed table --------------------
VARIABLES
  re_variant,         \* do_email, email_do, get_user_email
  re_domains,         \* the domain terms (do_email, email_do) or the from=
                      \* terms (get_user_email)
  re_folder,          \* the folder name as configured
  re_server,          \* the messages of the folder that satisfy the request,
                      \* in the order the server returns them
  re_url,             \* the page the fetcher asks for next; 0 is None
  re_all,             \* the fetcher's all_messages
  re_messages,        \* the main routine's list
  re_rows,            \* the rows of the printed table
  re_pc               \* "off", "fetch", "fetched", "merged", "done"

renderVars == <<re_variant, re_domains, re_folder, re_server, re_url, re_all,
                re_messages, re_rows, re_pc>>

RenderIdle ==
  /\ re_variant = "none"
  /\ re_domains = <<>>
  /\ re_folder = <<>>
  /\ re_server = <<>>
  /\ re_url = 0
  /\ re_all = <<>>
  /\ re_messages = <<>>
  /\ re_rows = <<>>
  /\ re_pc = "off"

auxVars == <<filterVars, storeVars, dateVars, folderVars, renderVars>>

AuxIdle == FilterIdle /\ StoreIdle /\ DateIdle /\ FolderIdle /\ RenderIdle

vars == <<runVars, auxVars>>

\* ---- initial states ------------------------------------------------------
InitRun(pairCounts, scriptSet, n401s, ticks) ==
  /\ variant \in Variants
  /\ effective_top_none \in (IF variant = "get_user_email" THEN BOOLEAN ELSE {TRUE})
  /\ npairs \in pairCounts
  /\ scripts \in [1..npairs -> scriptSet]
  /\ budget = [n401 |-> n401s, ticks |-> ticks]
  /\ now = 0
  /\ store \in InitialStores
  /\ pc = "start"
  /\ access_token = NoToken
  /\ hdr = NoToken
  /\ minted = 0
  /\ pair = 0
  /\ url = 0
  /\ page_count = 0
  /\ all_messages = <<>>
  /\ all_final_messages = <<>>
  /\ tm = NoTm
  /\ tokReqs = 0
  /\ storeWrites = 0
  /\ fail = NoFail
  /\ apiReqs = 0
  /\ fReqs = 0
  /\ fTok = 0
  /\ f401 = 0
  /\ p401 = 0
  /\ okPages = 0
  /\ pending = NoPending
  /\ lastReq = NoReq
  /\ lastResp = "none"
  /\ fres = NoFres
  /\ visited = {}

\* a run over several folders with short server listings
Init == InitRun(1..MaxPairs, ShortScripts, Max401, MaxTicks) /\ AuxIdle

\* a run over one folder whose listing may be long or endless
InitLong == InitRun({1}, LongScripts, 1, 1) /\ AuxIdle

cfgVars == <<variant, effective_top_none, npairs, scripts>>

\* ---- the main routine ----------------------------------------------------
\* The fetcher is entered for pair pr with token tok: the initial URL is
\* built and the headers carry the token the main routine passes.
BeginFolder(pr, tok) ==
  /\ pair' = pr
  /\ url' = 1
  /\ page_count' = 0
  /\ all_messages' = <<>>
  /\ hdr' = tok
  /\ fReqs' = 0
  /\ fTok' = 0
  /\ f401' = 0
  /\ p401' = 0
  /\ okPages' = 0
  /\ pending' = NoPending
  /\ visited' = visited \cup {pr}

\* The fetch of the current folder ends and contributes contrib: the main
\* loop extends its list and goes on to the next pair, or finishes.
EndFolder(contrib, err, oks) ==
  /\ all_final_messages' = all_final_messages \o contrib
  /\ fres' = [pair |-> pair, err |-> err, reqs |-> fReqs + 1, n401 |-> f401,
              tokReqs |-> fTok, okPages |-> oks, msgs |-> contrib]
  /\ IF pair < npairs
     THEN /\ BeginFolder(pair + 1, access_token)
          /\ pc' = "fetch"
     ELSE /\ pc' = "done"
          /\ url' = 0
          /\ UNCHANGED <<pair, page_count, all_messages, hdr, fReqs, fTok, f401,
                         p401, okPages, pending, visited>>

\* get_access_token at start-up, the cached token still valid
StartCached ==
  /\ pc = "start"
  /\ ~is_token_expired(variant, store, now)
  /\ access_token' = [id |-> store.token, issued |-> store.ts]
  /\ tm' = [called |-> TRUE, at |-> now, before |-> store, ok |-> TRUE,
            ret |-> store.token, reqs |-> 0, writes |-> 0, stored |-> store]
  /\ BeginFolder(1, access_token')
  /\ pc' = "fetch"
  /\ UNCHANGED <<cfgVars, budget, now, store, minted, all_final_messages, tokReqs,
                 storeWrites, fail, apiReqs, lastReq, lastResp, fres>>

\* get_access_token at start-up, no valid cached token, the token request
\* succeeds: the new token is saved with the current time and returned
StartRefreshOk ==
  /\ pc = "start"
  /\ is_token_expired(variant, store, now)
  /\ minted' = minted + 1
  /\ tokReqs' = tokReqs + 1
  /\ store' = save_token(store, minted + 2, now)
  /\ storeWrites' = storeWrites + 1
  /\ access_token' = [id |-> minted + 2, issued |-> now]
  /\ tm' = [called |-> TRUE, at |-> now, before |-> store, ok |-> TRUE,
            ret |-> minted + 2, reqs |-> 1, writes |-> 1, stored |-> store']
  /\ BeginFolder(1, access_token')
  /\ pc' = "fetch"
  /\ UNCHANGED <<cfgVars, budget, now, all_final_messages, fail, apiReqs, lastReq,
                 lastResp, fres>>

\* get_access_token at start-up, the token request fails: the exception
\* reaches the main routine's handler (exit 1), or sys.exit(1), or None is
\* returned and get_user_email returns
StartRefreshFail ==
  /\ pc = "start"
  /\ is_token_expired(variant, store, now)
  /\ tokReqs' = tokReqs + 1
  /\ tm' = [called |-> TRUE, at |-> now, before |-> store, ok |-> FALSE,
            ret |-> 0, reqs |-> 1, writes |-> 0, stored |-> store]
  /\ fail' = [on |-> TRUE, tokReqs |-> tokReqs + 1, apiReqs |-> apiReqs]
  /\ pc' = "aborted"
  /\ UNCHANGED <<cfgVars, budget, now, store, access_token, hdr, minted, pair, url,
                 page_count, all_messages, all_final_messages, storeWrites, apiReqs,
                 fReqs, fTok, f401, p401, okPages, pending, lastReq, lastResp, fres,
                 visited>>

\* ---- the environment's clock ----------------------------------------------
Tick ==
  /\ pc \in {"start", "fetch"}
  /\ budget.ticks > 0
  /\ \E d \in TickSteps : now' = now + d
  /\ budget' = [budget EXCEPT !.ticks = @ - 1]
  /\ UNCHANGED <<cfgVars, store, pc, access_token, hdr, minted, pair, url,
                 page_count, all_messages, all_final_messages, tm, tokReqs,
                 storeWrites, fail, apiReqs, fReqs, fTok, f401, p401, okPages,
                 pending, lastReq, lastResp, fres, visited>>

\* ---- the fetchers' pagination loops ---------------------------------------
\* the page request the loop sends in the current state
Request ==
  [sent |-> TRUE, pair |-> pair, page |-> url, tok |-> hdr.id,
   age |-> now - hdr.issued, retry |-> pending.on, expPage |-> pending.page,
   expTok |-> pending.tok]

CanRequest == pc = "fetch" /\ url # 0 /\ fReqs < MaxRequests

\* the ghosts every page request updates
Sent(resp) ==
  /\ lastReq' = Request
  /\ lastResp' = resp
  /\ apiReqs' = apiReqs + 1

\* The page is answered with 200: its messages are appended and the next
\* link is followed, unless the loop ends here (no link, or a ceiling).
PageOk ==
  /\ CanRequest
  /\ Sent("ok")
  /\ LET s == scripts[pair]
         r == AfterOk(variant, all_messages, page_count, Page(s, pair, url),
                      NextLink(s, url), effective_top_none)
     IN IF r.url # 0
        THEN /\ all_messages' = r.msgs
             /\ page_count' = r.page_count
             /\ url' = r.url
             /\ fReqs' = fReqs + 1
             /\ okPages' = okPages + 1
             /\ p401' = 0
             /\ pending' = NoPending
             /\ UNCHANGED <<pc, pair, hdr, fTok, f401, all_final_messages, fres,
                            visited>>
        ELSE EndFolder(r.msgs, FALSE, okPages + 1)
  /\ UNCHANGED <<cfgVars, budget, now, store, access_token, minted, tm, tokReqs,
                 storeWrites, fail>>

\* Page401RefreshOk without the assignment to headers["Authorization"]
Page401RefreshOk_staleHeader ==
  /\ CanRequest
  /\ Handles401(variant)
  /\ budget.n401 > 0
  /\ Sent("401")
  /\ budget' = [budget EXCEPT !.n401 = @ - 1]
  /\ minted' = minted + 1
  /\ tokReqs' = tokReqs + 1
  /\ fTok' = fTok + 1
  /\ store' = save_token(store, minted + 2, now)
  /\ storeWrites' = storeWrites + 1
  /\ pending' = [on |-> TRUE, page |-> url, tok |-> minted + 2]
  /\ page_count' = page_count + 1
  /\ fReqs' = fReqs + 1
  /\ f401' = f401 + 1
  /\ p401' = p401 + 1
  /\ UNCHANGED <<cfgVars, now, pc, access_token, hdr, pair, url, all_messages,
                 all_final_messages, tm, fail, okPages, fres, visited>>

\* Page401RefreshOk with get_new_access_token returning the new token
\* without save_token_to_env
Page401RefreshOk_nosave ==
  /\ CanRequest
  /\ Handles401(variant)
  /\ budget.n401 > 0
  /\ Sent("401")
  /\ budget' = [budget EXCEPT !.n401 = @ - 1]
  /\ minted' = minted + 1
  /\ tokReqs' = tokReqs + 1
  /\ fTok' = fTok + 1
  /\ hdr' = [id |-> minted + 2, issued |-> now]
  /\ pending' = [on |-> TRUE, page |-> url, tok |-> minted + 2]
  /\ page_count' = page_count + 1
  /\ fReqs' = fReqs + 1
  /\ f401' = f401 + 1
  /\ p401' = p401 + 1
  /\ UNCHANGED <<cfgVars, now, pc, access_token, pair, url, all_messages,
                 all_final_messages, tm, fail, okPages, fres, visited, store,
                 storeWrites>>

\* do_email / email_do: the page is answered with 401 and the token request
\* of get_new_access_token succeeds: the new token is saved, put into the
\* headers, and the loop continues with the same url
Page401RefreshOk ==
  /\ CanRequest
  /\ Handles401(variant)
  /\ budget.n401 > 0
  /\ Sent("401")
  /\ budget' = [budget EXCEPT !.n401 = @ - 1]
  /\ minted' = minted + 1
  /\ tokReqs' = tokReqs + 1
  /\ fTok' = fTok + 1
  /\ store' = save_token(store, minted + 2, now)
  /\ storeWrites' = storeWrites + 1
  /\ hdr' = [id |-> minted + 2, issued |-> now]
  /\ pending' = [on |-> TRUE, page |-> url, tok |-> minted + 2]
  /\ page_count' = page_count + 1
  /\ fReqs' = fReqs + 1
  /\ f401' = f401 + 1
  /\ p401' = p401 + 1
  /\ UNCHANGED <<cfgVars, now, pc, access_token, pair, url, all_messages,
                 all_final_messages, tm, fail, okPages, fres, visited>>

\* Page401RefreshFail with the failed refresh handled like any other error
\* of the folder (break) instead of leaving the fetcher
Page401RefreshFail_break ==
  /\ CanRequest
  /\ Handles401(variant)
  /\ budget.n401 > 0
  /\ Sent("401")
  /\ budget' = [budget EXCEPT !.n401 = @ - 1]
  /\ tokReqs' = tokReqs + 1
  /\ fail' = [on |-> TRUE, tokReqs |-> tokReqs + 1, apiReqs |-> apiReqs + 1]
  /\ EndFolder(all_messages, TRUE, okPages)
  /\ UNCHANGED <<cfgVars, now, store, access_token, minted, tm, storeWrites>>

\* do_email / email_do: the page is answered with 401 and the token request
\* fails: get_new_access_token re-raises inside the handler, the exception
\* leaves the fetcher and reaches the main routine's handler, which exits
Page401RefreshFail ==
  /\ CanRequest
  /\ Handles401(variant)
  /\ budget.n401 > 0
  /\ Sent("401")
  /\ budget' = [budget EXCEPT !.n401 = @ - 1]
  /\ tokReqs' = tokReqs + 1
  /\ fTok' = fTok + 1
  /\ fReqs' = fReqs + 1
  /\ f401' = f401 + 1
  /\ page_count' = page_count + 1
  /\ fail' = [on |-> TRUE, tokReqs |-> tokReqs + 1, apiReqs |-> apiReqs + 1]
  /\ pc' = "aborted"
  /\ UNCHANGED <<cfgVars, now, store, access_token, hdr, minted, pair, url,
                 all_messages, all_final_messages, tm, storeWrites, p401, okPages,
                 pending, fres, visited>>

\* the answers a fetcher treats as a failure of the folder: an HTTP error
\* status other than 401, a network error, and 401 where it is not handled
ErrorKinds(v) == IF Handles401(v) THEN {"http", "net"} ELSE {"http", "net", "401"}

\* PageError with the failure ending the whole run
PageError_fatal ==
  /\ CanRequest
  /\ \E kind \in ErrorKinds(variant) : Sent(IF kind = "401" THEN "401" ELSE "error")
  /\ pc' = "aborted"
  /\ UNCHANGED <<cfgVars, budget, now, store, access_token, hdr, minted, pair, url,
                 page_count, all_messages, all_final_messages, tm, tokReqs,
                 storeWrites, fail, fReqs, fTok, f401, p401, okPages, pending, fres,
                 visited>>

\* The page request fails: the loop is left (break, or the exception reaches
\* the per-folder handler) and the main loop goes on with the next pair.
PageError ==
  /\ CanRequest
  /\ \E kind \in ErrorKinds(variant) : Sent(IF kind = "401" THEN "401" ELSE "error")
  /\ EndFolder(OnError(variant, all_messages), TRUE, okPages)
  /\ UNCHANGED <<cfgVars, budget, now, store, access_token, minted, tm, tokReqs,
                 storeWrites, fail>>

Next ==
  \/ StartCached /\ UNCHANGED auxVars
  \/ StartRefreshOk /\ UNCHANGED auxVars
  \/ StartRefreshFail /\ UNCHANGED auxVars
  \/ Tick /\ UNCHANGED auxVars
  \/ PageOk /\ UNCHANGED auxVars
  \/ Page401RefreshOk /\ UNCHANGED auxVars
  \/ Page401RefreshFail /\ UNCHANGED auxVars
  \/ PageError /\ UNCHANGED auxVars

Spec == Init /\ [][Next]_vars

SpecLong == InitLong /\ [][Next]_vars

\* ==== the claims ==========================================================
CitedFetchers == {"do_email", "email_do", "email_scan"}

\* the messages of pair pr in the main loop's list, in order
MessagesOf(pr) == SelectSeq(all_final_messages, LAMBDA m : m[1] = pr)

\* C1 (as claimed): in the fetchers that handle 401, a page triggers at most
\* one token refresh and one retry; a 401 answer to the retry ends the fetch
\* of the folder as an error, with no further refresh.
C1_SecondConsecutive401Stops ==
  /\ Handles401(variant) => p401 <= 1
  /\ (Handles401(variant) /\ lastReq.retry /\ lastResp = "401")
       => (fres.pair = lastReq.pair /\ fres.err)

\* C2 (as claimed): the fetch of one folder issues at most 100 page requests,
\* whatever the server answers.
C2_AtMost100PageRequests == fReqs <= PAGE_LIMIT /\ fres.reqs <= PAGE_LIMIT

CachedValid ==
  /\ tm.before.kind = "ok"
  /\ tm.at - tm.before.ts < TOKEN_LIFETIME - Margin(variant)

\* C4: with a cached token whose age is below one hour minus the variant's
\* margin, get_access_token returns that token, issues no token request and
\* does not write the store.
C4_CachedTokenReused ==
  (tm.called /\ CachedValid)
    => /\ tm.ok
       /\ tm.ret = tm.before.token
       /\ tm.reqs = 0
       /\ tm.writes = 0
       /\ tm.stored = tm.before

\* C4 witness: do_email started with a token aged 3299 s and reuses it
C4_Witness ==
  /\ variant = "do_email"
  /\ tm.called
  /\ tm.at - tm.before.ts = TOKEN_LIFETIME - TOKEN_REFRESH_MARGIN - 1
  /\ tm.before.kind = "ok"
  /\ access_token.id = tm.before.token
  /\ tokReqs = 0
  /\ pc = "fetch"

C6_TokenNeverUsedPastLifetime ==
  lastReq.sent => lastReq.age < TOKEN_LIFETIME - Margin(variant)

\* C7: after a 401 and a successful refresh the retry asks for the same page
\* with the refreshed token; when it succeeds the run goes on, and a folder
\* with that single 401 ends with every page's messages exactly once, one
\* request more than pages, and one token request.
C7_RetrySamePageWithNewToken ==
  /\ lastReq.retry
       => /\ lastReq.page = lastReq.expPage
          /\ lastReq.tok = lastReq.expTok
          /\ lastReq.tok # access_token.id
  /\ (lastReq.retry /\ lastResp = "ok") => pc # "aborted"
  /\ (fres.pair # 0 /\ fres.n401 = 1 /\ ~fres.err /\ ~scripts[fres.pair].endless)
       => /\ fres.reqs = scripts[fres.pair].n + 1
          /\ fres.tokReqs = 1
          /\ fres.msgs = Pages(scripts[fres.pair], fres.pair, scripts[fres.pair].n)
          /\ MessagesOf(fres.pair) = fres.msgs

\* C7 witness: the last page of a two-page folder was answered 401 once, the
\* retry succeeded and the folder ended with its three messages
C7_Witness ==
  /\ lastReq.retry /\ lastResp = "ok"
  /\ fres.pair = lastReq.pair
  /\ fres.n401 = 1 /\ ~fres.err
  /\ fres.reqs = 3
  /\ Len(fres.msgs) = 3
  /\ lastReq.tok # access_token.id

\* C8: an HTTP error other than 401, or a network error, ends the fetch of
\* that folder only: the main loop goes on with the next pair (or finishes),
\* a finished run has begun every pair, and only a failed token request
\* aborts a run.
C8_ErrorIsFolderScoped ==
  /\ lastResp = "error"
       => /\ fres.pair = lastReq.pair
          /\ fres.err
          /\ IF lastReq.pair < npairs
             THEN pc = "fetch" /\ pair = lastReq.pair + 1 /\ url = 1 /\ fReqs = 0
             ELSE pc = "done"
  /\ pc = "done" => visited = 1..npairs
  /\ pc = "aborted" => fail.on

\* C8 witness: the first of two folders failed and the second is being fetched
C8_Witness ==
  /\ lastResp = "error"
  /\ lastReq.pair = 1
  /\ npairs = 2
  /\ pair = 2
  /\ pc = "fetch"
  /\ visited = {1, 2}

\* C9 (as claimed): when a page of a folder fails after earlier pages of it
\* were retrieved, none of that folder's messages is in the run's list.
C9_PartialResultsDiscarded ==
  (fres.err /\ fres.okPages >= 1) => MessagesOf(fres.pair) = <<>>

\* C9 (amended): only get_user_email discards them; do_email, email_do and
\* email_scan keep the messages of the pages retrieved before the failure.
C9_PartialResultsKeptExceptGetUserEmail ==
  fres.err
    => MessagesOf(fres.pair) =
         IF variant = "get_user_email" THEN <<>>
         ELSE Pages(scripts[fres.pair], fres.pair, fres.okPages)

\* C9 witness: do_email fetched page 1 (two messages) of a folder, page 2
\* failed, and the two messages are in the run's list
C9_Witness ==
  /\ variant = "do_email"
  /\ fres.err
  /\ fres.okPages = 1
  /\ Len(MessagesOf(fres.pair)) = 2

\* C10: once a token request has failed the run is aborted, no further token
\* request is issued and no request is sent to the mail API.
C10_TokenFailureAbortsRun ==
  fail.on
    => /\ pc = "aborted"
       /\ tokReqs = fail.tokReqs
       /\ apiReqs = fail.apiReqs

\* C10 witness: a refresh triggered by a 401 in the middle of a fetch failed
\* and the run is aborted
C10_Witness ==
  /\ fail.on
  /\ lastResp = "401"
  /\ okPages >= 1
  /\ pc = "aborted"

\* ==== strings ==============================================================
\* A string is the sequence of its characters.
Upper == <<"A", "B", "C", "D", "E", "F", "G", "H", "I", "J", "K", "L", "M",
           "N", "O", "P", "Q", "R", "S", "T", "U", "V", "W", "X", "Y", "Z">>

Lower == <<"a", "b", "c", "d", "e", "f", "g", "h", "i", "j", "k", "l", "m",
           "n", "o", "p", "q", "r", "s", "t", "u", "v", "w", "x", "y", "z">>

LowerChar(c) ==
  IF \E k \in DOMAIN Upper : Upper[k] = c
  THEN Lower[CHOOSE k \in DOMAIN Upper : Upper[k] = c]
  ELSE c

\* str.lower()
lower(s) == [i \in DOMAIN s |-> LowerChar(s[i])]

\* the Python test `sub in s`
Contains(sub, s) ==
  \E i \in 0..(Len(s) - Len(sub)) : SubSeq(s, i + 1, i + Len(sub)) = sub

\* str.startswith(prefix)
StartsWith(s, prefix) ==
  Len(prefix) <= Len(s) /\ SubSeq(s, 1, Len(prefix)) = prefix

\* ==== the recipient and sender filters ===================================
\* the organizational domain has_external_recipients tests for
ORG_DOMAIN ==
  <<"c", "h", "r", "i", "s", "t", "o", "f", "f", "e", "r", "s", "o", "n",
    "r", "o", "b", "b", ".", "c", "o", "m">>

\* recipient and sender addresses as the server returns them; <<>> is a
\* recipient without an address
ADDR_ACME == <<"x", "@", "a", "c", "m", "e", ".", "c", "o", "m">>

ADDR_NOTACME ==
  <<"x", "@", "n", "o", "t", "a", "c", "m", "e", ".", "c", "o", "m">>

ADDR_ACME_UPPER == <<"X", "@", "A", "c", "m", "e", ".", "C", "O", "M">>

ADDR_ORG ==
  <<"a", "@", "c", "h", "r", "i", "s", "t", "o", "f", "f", "e", "r", "s",
    "o", "n", "r", "o", "b", "b", ".", "c", "o", "m">>

ADDR_NOTORG ==
  <<"a", "@", "n", "o", "t", "c", "h", "r", "i", "s", "t", "o", "f", "f",
    "e", "r", "s", "o", "n", "r", "o", "b", "b", ".", "c", "o", "m">>

ADDR_OTHER == <<"b", "@", "o", "t", "h", "e", "r", ".", "o", "r", "g">>

NoAddress == <<>>

NAME_BOB == <<"B", "o", "b", " ", "O", "t", "h", "e", "r">>

\* filter terms as the configuration files give them
TERM_ACME == <<"a", "c", "m", "e", ".", "c", "o", "m">>

TERM_ACME_UPPER == <<"A", "C", "M", "E", ".", "C", "O", "M">>

TERM_OTHER == <<"o", "t", "h", "e", "r", ".", "o", "r", "g">>

TERM_BOB == <<"b", "o", "b">>

Msg(to, cc, fromAddr, fromName) ==
  [to |-> to, cc |-> cc, from_addr |-> fromAddr, from_name |-> fromName]

\* the messages a folder may hold
MessagePool ==
  { Msg(<<ADDR_ACME>>, <<>>, ADDR_OTHER, NAME_BOB),
    Msg(<<ADDR_ORG>>, <<ADDR_ACME_UPPER>>, ADDR_ORG, <<>>),
    Msg(<<ADDR_NOTACME>>, <<>>, ADDR_ACME, <<>>),
    Msg(<<ADDR_ORG>>, <<>>, ADDR_ACME_UPPER, <<>>),
    Msg(<<ADDR_NOTORG>>, <<>>, ADDR_ORG, NAME_BOB),
    Msg(<<NoAddress>>, <<>>, NoAddress, <<>>),
    Msg(<<ADDR_OTHER, ADDR_ACME>>, <<ADDR_ORG>>, ADDR_OTHER, <<>>),
    Msg(<<>>, <<ADDR_ORG, ADDR_OTHER>>, ADDR_NOTACME, <<>>) }

\* the term lists of the configuration, as written there
RawTermLists ==
  { <<>>, <<TERM_ACME>>, <<TERM_ACME_UPPER>>, <<TERM_OTHER, TERM_ACME>>,
    <<ORG_DOMAIN>> }

\* from= arguments of get_user_email
FromTermLists == { <<>>, <<TERM_BOB>>, <<TERM_ACME_UPPER>>, <<TERM_OTHER, TERM_BOB>> }

MaxMsgs == 2

SeqsUpTo(S, n) == UNION { [1..k -> S] : k \in 0..n }

FilterVariants == {"do_email", "email_do", "get_user_email"}

\* load_filter_domains (do_email) and the FILTER_DOMAINS line (email_do)
\* lower-case every term; the per-user domains of an --input file are only
\* stripped
load_filter_domains(raw) == [k \in DOMAIN raw |-> lower(raw[k])]

user_domains(v, source, raw) ==
  IF v = "do_email" /\ source = "input_file" THEN raw
  ELSE load_filter_domains(raw)

\* has_external_recipients without the test for the organizational domain
has_external_recipients_any(msg) ==
  LET all_recipients == msg.to \o msg.cc
  IN  \E i \in DOMAIN all_recipients : Len(lower(all_recipients[i])) > 0

has_external_recipients(msg) ==
  LET all_recipients == msg.to \o msg.cc
  IN  \E i \in DOMAIN all_recipients :
        LET email == lower(all_recipients[i])
        IN  Len(email) > 0 /\ ~Contains(ORG_DOMAIN, email)

\* the recipients a filter looks at
FilterRecipients(v, msg) ==
  IF v = "do_email" THEN msg.to \o msg.cc ELSE msg.to

AnyDomainIn(domains, email) ==
  \E k \in DOMAIN domains : Contains(domains[k], email)

\* the inner loop over the recipients of one message, from recipient i on:
\* the times the message is appended to `filtered`
RECURSIVE ScanRecipients_nobreak(_, _, _, _)
ScanRecipients_nobreak(v, msg, domains, i) ==
  LET recipients == FilterRecipients(v, msg)
  IN  IF i > Len(recipients) THEN 0
      ELSE (IF AnyDomainIn(domains, lower(recipients[i]))
            THEN (IF v = "do_email" /\ ~has_external_recipients(msg) THEN 0 ELSE 1)
            ELSE 0)
           + ScanRecipients_nobreak(v, msg, domains, i + 1)

RECURSIVE ScanRecipients(_, _, _, _)
ScanRecipients(v, msg, domains, i) ==
  LET recipients == FilterRecipients(v, msg)
  IN  IF i > Len(recipients) THEN 0
      ELSE IF AnyDomainIn(domains, lower(recipients[i]))
           THEN (IF v = "do_email" /\ ~has_external_recipients(msg) THEN 0 ELSE 1)
           ELSE ScanRecipients(v, msg, domains, i + 1)

Repeat(x, n) == [k \in 1..n |-> x]

RECURSIVE filter_by_domains(_, _, _)
filter_by_domains(v, messages, domains) ==
  IF Len(domains) = 0 \/ Len(messages) = 0 THEN messages
  ELSE Repeat(Head(messages), ScanRecipients(v, Head(messages), domains, 1))
       \o filter_by_domains(v, Tail(messages), domains)

\* get_user_email: the client-side sender filter
SenderMatches(msg, terms) ==
  \E k \in DOMAIN terms :
    LET term == lower(terms[k])
    IN  Contains(term, lower(msg.from_addr)) \/ Contains(term, lower(msg.from_name))

sender_filter(messages, terms) ==
  SelectSeq(messages, LAMBDA m : SenderMatches(m, terms))

\* the run variables while one of the client-side stages is looked at on its
\* own: no run of the token and page pipeline is in progress
RunIdle ==
  /\ variant = "do_email"
  /\ effective_top_none = TRUE
  /\ npairs = 0
  /\ scripts = <<>>
  /\ budget = [n401 |-> 0, ticks |-> 0]
  /\ now = 0
  /\ store = NoStore
  /\ pc = "off"
  /\ access_token = NoToken
  /\ hdr = NoToken
  /\ minted = 0
  /\ pair = 0
  /\ url = 0
  /\ page_count = 0
  /\ all_messages = <<>>
  /\ all_final_messages = <<>>
  /\ tm = NoTm
  /\ tokReqs = 0
  /\ storeWrites = 0
  /\ fail = NoFail
  /\ apiReqs = 0
  /\ fReqs = 0
  /\ fTok = 0
  /\ f401 = 0
  /\ p401 = 0
  /\ okPages = 0
  /\ pending = NoPending
  /\ lastReq = NoReq
  /\ lastResp = "none"
  /\ fres = NoFres
  /\ visited = {}

InitFilter ==
  /\ RunIdle
  /\ fl_variant \in FilterVariants
  /\ fl_api \in (IF fl_variant = "do_email" THEN {"filter", "search"} ELSE {"filter"})
  /\ fl_domains \in
       (IF fl_variant = "get_user_email" THEN FromTermLists
        ELSE { user_domains(fl_variant, source, raw) :
                 source \in {"config", "input_file"}, raw \in RawTermLists })
  /\ fl_input \in SeqsUpTo(MessagePool, MaxMsgs)
  /\ fl_messages = fl_input
  /\ fl_pc = "fetched"
  /\ fl_call = NoCall
  /\ fl_ext = NoExt
  /\ StoreIdle
  /\ DateIdle
  /\ FolderIdle
  /\ RenderIdle

\* do_email main loop body after the fetch: the domain filter runs only in
\* filter mode with terms configured; then the messages join
\* all_final_messages
DoEmailFolder ==
  /\ fl_pc = "fetched"
  /\ fl_variant = "do_email"
  /\ LET apply == fl_api = "filter" /\ Len(fl_domains) > 0
         ret == filter_by_domains(fl_variant, fl_input, fl_domains)
     IN  /\ fl_messages' = IF apply THEN ret ELSE fl_input
         /\ fl_call' = IF apply
                       THEN [called |-> TRUE, messages |-> fl_input,
                             domains |-> fl_domains, ret |-> ret]
                       ELSE fl_call
  /\ fl_pc' = "merged"
  /\ UNCHANGED <<fl_variant, fl_api, fl_domains, fl_input, fl_ext>>

\* do_email after the loops: messages without an external recipient are
\* dropped before the table and the CSV are written
DoEmailFinal ==
  /\ fl_pc = "merged"
  /\ fl_variant = "do_email"
  /\ fl_ext' = IF Len(fl_messages) > 0
               THEN [called |-> TRUE, messages |-> fl_messages,
                     rets |-> [i \in DOMAIN fl_messages |->
                                 has_external_recipients(fl_messages[i])]]
               ELSE fl_ext
  /\ fl_messages' = SelectSeq(fl_messages, has_external_recipients)
  /\ fl_pc' = "done"
  /\ UNCHANGED <<fl_variant, fl_api, fl_domains, fl_input, fl_call>>

\* email_do main loop body after the fetch
EmailDoFolder ==
  /\ fl_pc = "fetched"
  /\ fl_variant = "email_do"
  /\ LET apply == Len(fl_domains) > 0
         ret == filter_by_domains(fl_variant, fl_input, fl_domains)
     IN  /\ fl_messages' = IF apply THEN ret ELSE fl_input
         /\ fl_call' = IF apply
                       THEN [called |-> TRUE, messages |-> fl_input,
                             domains |-> fl_domains, ret |-> ret]
                       ELSE fl_call
  /\ fl_pc' = "done"
  /\ UNCHANGED <<fl_variant, fl_api, fl_domains, fl_input, fl_ext>>

\* get_user_email after the fetch: the sender filter for from= terms
GetUserEmailSenderFilter ==
  /\ fl_pc = "fetched"
  /\ fl_variant = "get_user_email"
  /\ LET apply == Len(fl_domains) > 0
         ret == sender_filter(fl_input, fl_domains)
     IN  /\ fl_messages' = IF apply THEN ret ELSE fl_input
         /\ fl_call' = IF apply
                       THEN [called |-> TRUE, messages |-> fl_input,
                             domains |-> fl_domains, ret |-> ret]
                       ELSE fl_call
  /\ fl_pc' = "done"
  /\ UNCHANGED <<fl_variant, fl_api, fl_domains, fl_input, fl_ext>>

NextFilter ==
  \/ DoEmailFolder /\ UNCHANGED <<runVars, storeVars, dateVars, folderVars, renderVars>>
  \/ DoEmailFinal /\ UNCHANGED <<runVars, storeVars, dateVars, folderVars, renderVars>>
  \/ EmailDoFolder /\ UNCHANGED <<runVars, storeVars, dateVars, folderVars, renderVars>>
  \/ GetUserEmailSenderFilter /\ UNCHANGED <<runVars, storeVars, dateVars, folderVars, renderVars>>

SpecFilter == InitFilter /\ [][NextFilter]_vars

\* ==== the claims on the filters ===========================================
\* the recipients of a message, To then Cc
AllRecipients(msg) == msg.to \o msg.cc

\* some To or Cc address contains some term, letter case ignored
RecipientMatches(msg, domains) ==
  \E i \in DOMAIN AllRecipients(msg) : \E k \in DOMAIN domains :
    Contains(lower(domains[k]), lower(AllRecipients(msg)[i]))

Occurs(m, seq) == \E j \in DOMAIN seq : seq[j] = m

\* C11: filter_by_domains keeps a message if and only if at least one
\* address of its To or Cc list contains at least one of the domain terms as
\* a substring, whatever the letter case of the term and of the address.
C11_KeepsIffRecipientMatches ==
  (fl_call.called /\ fl_variant \in {"do_email", "email_do"})
    => \A i \in DOMAIN fl_call.messages :
         Occurs(fl_call.messages[i], fl_call.ret)
           <=> RecipientMatches(fl_call.messages[i], fl_call.domains)

\* seq a is a subsequence of seq b: the elements of a occur in b at
\* increasing positions
RECURSIVE IsSubsequence(_, _)
IsSubsequence(a, b) ==
  IF Len(a) = 0 THEN TRUE
  ELSE IF Len(b) = 0 THEN FALSE
  ELSE IF Head(a) = Head(b) THEN IsSubsequence(Tail(a), Tail(b))
  ELSE IsSubsequence(a, Tail(b))

\* C12: the list a filter returns is a subsequence of the list it was given:
\* only input messages, each input message at most once, in the input's
\* relative order (filter_by_domains of do_email and email_do, and the sender
\* filter of get_user_email).
C12_FilterOutputIsSubsequence ==
  fl_call.called => IsSubsequence(fl_call.ret, fl_call.messages)

\* C12 witness: a filter was given two messages, the first of which has two
\* recipients that match a term, and returned exactly that one
C12_Witness ==
  /\ fl_call.called
  /\ fl_variant \in {"do_email", "email_do"}
  /\ Len(fl_call.messages) = 2
  /\ fl_call.messages[1].to = <<ADDR_OTHER, ADDR_ACME>>
  /\ fl_call.domains = <<TERM_OTHER, TERM_ACME>>
  /\ fl_call.ret = <<fl_call.messages[1]>>

\* the part of an address after its first "@"; <<>> when there is none
DomainOf(address) ==
  IF \E i \in DOMAIN address : address[i] = "@"
  THEN LET at == CHOOSE i \in DOMAIN address :
                   /\ address[i] = "@"
                   /\ \A j \in 1..(i - 1) : address[j] # "@"
       IN  SubSeq(address, at + 1, Len(address))
  ELSE <<>>

\* C20: has_external_recipients is true exactly when some non-empty To or Cc
\* address has a domain (the part after "@") other than
\* christoffersonrobb.com.
C20_ExternalIffForeignDomain ==
  fl_ext.called
    => \A i \in DOMAIN fl_ext.messages :
         fl_ext.rets[i]
           <=> \E k \in DOMAIN AllRecipients(fl_ext.messages[i]) :
                 LET address == AllRecipients(fl_ext.messages[i])[k]
                 IN  Len(address) > 0 /\ lower(DomainOf(address)) # ORG_DOMAIN

\* ==== the token store as a file ===========================================
NL == "\n"

KEY_ACCESS_TOKEN ==
  <<"A", "C", "C", "E", "S", "S", "_", "T", "O", "K", "E", "N", "=">>

KEY_TOKEN_TIMESTAMP ==
  <<"T", "O", "K", "E", "N", "_", "T", "I", "M", "E", "S", "T", "A", "M",
    "P", "=">>

\* lines a hand-written .env file holds besides the token lines
LINE_CLIENT_ID == <<"C", "L", "I", "E", "N", "T", "_", "I", "D", "=", "c">>

LINE_COMMENT == <<"#", " ", "e", "n", "v">>

Digits == <<"0", "1", "2", "3", "4", "5", "6", "7", "8", "9">>

\* the decimal text of a natural number: the token and the timestamp are
\* written into the file as text
RECURSIVE ToText(_)
ToText(n) ==
  IF n < 10 THEN <<Digits[n + 1]>>
  ELSE ToText(n \div 10) \o <<Digits[(n % 10) + 1]>>

\* f.readlines(): the lines of the text, each with its line end; the last
\* line has none when the text does not end with one
RECURSIVE readlines(_)
readlines(text) ==
  IF Len(text) = 0 THEN <<>>
  ELSE IF \E i \in DOMAIN text : text[i] = NL
       THEN LET k == CHOOSE i \in DOMAIN text :
                       text[i] = NL /\ \A j \in 1..(i - 1) : text[j] # NL
            IN  <<SubSeq(text, 1, k)>> \o readlines(SubSeq(text, k + 1, Len(text)))
       ELSE <<text>>

\* f.writelines(lines): the lines one after the other, nothing added
RECURSIVE writelines(_)
writelines(lines) ==
  IF Len(lines) = 0 THEN <<>> ELSE Head(lines) \o writelines(Tail(lines))

TokenLine(token) == KEY_ACCESS_TOKEN \o ToText(token) \o <<NL>>

TimestampLine(now_) == KEY_TOKEN_TIMESTAMP \o ToText(now_) \o <<NL>>

\* the loop over the lines: every line that starts with a key is replaced
ReplaceLines(lines, token, now_) ==
  [i \in DOMAIN lines |->
     IF StartsWith(lines[i], KEY_ACCESS_TOKEN) THEN TokenLine(token)
     ELSE IF StartsWith(lines[i], KEY_TOKEN_TIMESTAMP) THEN TimestampLine(now_)
     ELSE lines[i]]

\* _save_token_to_env / update_env_file: read the lines, replace or append
\* the two keys, write the lines back
save_token_to_env(text, token, now_) ==
  LET lines == readlines(text)
      token_found == \E i \in DOMAIN lines : StartsWith(lines[i], KEY_ACCESS_TOKEN)
      ts_found == \E i \in DOMAIN lines : StartsWith(lines[i], KEY_TOKEN_TIMESTAMP)
  IN  writelines(ReplaceLines(lines, token, now_)
                 \o (IF token_found THEN <<>> ELSE <<TokenLine(token)>>)
                 \o (IF ts_found THEN <<>> ELSE <<TimestampLine(now_)>>))

MaxLines == 3

MaxSaves == 2

\* the lines a .env file may hold before the first save of a run
PriorLines ==
  { LINE_CLIENT_ID, LINE_COMMENT, KEY_ACCESS_TOKEN \o ToText(0),
    KEY_TOKEN_TIMESTAMP \o ToText(0) }

\* the text of a file with these lines; the last line ends with a line end
\* or not
FileText(lines, closed) ==
  writelines([i \in DOMAIN lines |->
                IF i < Len(lines) \/ closed THEN lines[i] \o <<NL>> ELSE lines[i]])

InitStore ==
  /\ RunIdle
  /\ FilterIdle
  /\ \E lines \in SeqsUpTo(PriorLines, MaxLines), closed \in BOOLEAN :
       st_text = FileText(lines, closed)
  /\ st_saves = 0
  /\ st_saved = NoSaved
  /\ st_before = <<>>
  /\ DateIdle
  /\ FolderIdle
  /\ RenderIdle

\* a token was issued: it is saved with the time of the save
SaveToken ==
  /\ st_saves < MaxSaves
  /\ LET token == st_saves + 1
         now_ == st_saves + 1
     IN  /\ st_text' = save_token_to_env(st_text, token, now_)
         /\ st_saved' = [token |-> token, now |-> now_]
  /\ st_before' = st_text
  /\ st_saves' = st_saves + 1

NextStore ==
  \/ SaveToken /\ UNCHANGED <<runVars, filterVars, dateVars, folderVars, renderVars>>

SpecStore == InitStore /\ [][NextStore]_vars

\* ==== the claims on the token store =======================================
LinesWith(text, key) ==
  SelectSeq(readlines(text), LAMBDA line : StartsWith(line, key))

\* C14: after any sequence of saves the file holds exactly one ACCESS_TOKEN
\* line and exactly one TOKEN_TIMESTAMP line, with the values of the last
\* save, whatever the file held before the first save.
C14_OneLinePerKeyWithLastValues ==
  st_saves > 0
    => /\ LinesWith(st_text, KEY_ACCESS_TOKEN) = <<TokenLine(st_saved.token)>>
       /\ LinesWith(st_text, KEY_TOKEN_TIMESTAMP) = <<TimestampLine(st_saved.now)>>

OtherLines(text) ==
  SelectSeq(readlines(text),
            LAMBDA line : /\ ~StartsWith(line, KEY_ACCESS_TOKEN)
                          /\ ~StartsWith(line, KEY_TOKEN_TIMESTAMP))

\* C15: a save leaves the lines other than the ACCESS_TOKEN and
\* TOKEN_TIMESTAMP lines as they were: same content, same order, none
\* removed, none merged with another line.
C15_OtherLinesUnchanged ==
  st_saves > 0 => OtherLines(st_text) = OtherLines(st_before)

\* ==== date range and order of the result ==================================
\* Time is counted in seconds from 00:00:00 UTC of the configured start date;
\* the configured range is that one day (start date = end date).
\* 23:59:59, the time of day appended to the end date
END_OF_DAY == 86399

\* EST.localize(...).astimezone(UTC): Eastern standard time is UTC-5
EST_OFFSET == 18000

\* datetime.min.replace(tzinfo=UTC): earlier than every timestamp
DATETIME_MIN == -1

\* A receivedDateTime / sentDateTime value as the server sends it: a text with
\* "Z" or an explicit offset (aware), a text without offset (naive), a text
\* that is no ISO date (malformed), or no value (missing).
Aware(wall, off) == [kind |-> "aware", wall |-> wall, off |-> off]

Naive(wall) == [kind |-> "naive", wall |-> wall, off |-> 0]

Malformed == [kind |-> "malformed", wall |-> 0, off |-> 0]

Missing == [kind |-> "missing", wall |-> 0, off |-> 0]

StampPool ==
  { Aware(18000, 0), Aware(50000, 0), Aware(104399, 0), Aware(104400, 0),
    Aware(21599, 3600), Naive(60000), Malformed, Missing }

\* the instant of an aware datetime, in UTC
Instant(stamp) == stamp.wall - stamp.off

\* the time the server itself orders and filters by
ServerTime(stamp) == IF stamp.kind = "aware" THEN Instant(stamp) ELSE stamp.wall

HasTime(stamp) == stamp.kind \in {"aware", "naive"}

\* min_utc, max_utc of email_scan.fetch_emails (Eastern time);
\* START_DATE, END_DATE of do_email (UTC)
RangeLo(v) == IF v = "email_scan" THEN EST_OFFSET ELSE 0

RangeHi(v) == IF v = "email_scan" THEN END_OF_DAY + EST_OFFSET ELSE END_OF_DAY

\* ---- the date check of email_scan.fetch_emails
in_date_range_open(v, stamp) ==
  /\ HasTime(stamp)
  /\ LET dt == IF stamp.kind = "naive" THEN stamp.wall ELSE Instant(stamp)
     IN  RangeLo(v) <= dt /\ dt <= RangeHi(v) + 1

\* fromisoformat fails on a malformed or missing value (the message is
\* skipped); a naive datetime is localized as UTC; the bounds are inclusive
in_date_range(v, stamp) ==
  /\ HasTime(stamp)
  /\ LET dt == IF stamp.kind = "naive" THEN stamp.wall ELSE Instant(stamp)
     IN  RangeLo(v) <= dt /\ dt <= RangeHi(v)

\* ---- the sort keys: parse_dt (email_scan), _parse_dt (get_user_email)
\* a naive datetime stays naive; a failure gives the aware minimum
SortKey(stamp) ==
  IF stamp.kind = "aware" THEN [aware |-> TRUE, t |-> Instant(stamp)]
  ELSE IF stamp.kind = "naive" THEN [aware |-> FALSE, t |-> stamp.wall]
  ELSE [aware |-> TRUE, t |-> DATETIME_MIN]

\* comparing an aware with a naive datetime raises TypeError; a sort of a
\* list that holds both compares two such keys
SortRaises(seq) ==
  \E i, j \in DOMAIN seq : SortKey(seq[i]).aware /\ ~SortKey(seq[j]).aware

\* list.sort(key=...): ascending and stable
RECURSIVE InsertByKey(_, _)
InsertByKey(x, sorted) ==
  IF Len(sorted) = 0 THEN <<x>>
  ELSE IF SortKey(x).t < SortKey(Head(sorted)).t THEN <<x>> \o sorted
  ELSE <<Head(sorted)>> \o InsertByKey(x, Tail(sorted))

RECURSIVE SortByKey(_)
SortByKey(seq) ==
  IF Len(seq) = 0 THEN <<>>
  ELSE InsertByKey(seq[Len(seq)], SortByKey(SubSeq(seq, 1, Len(seq) - 1)))

RECURSIVE Concat(_)
Concat(seqs) == IF Len(seqs) = 0 THEN <<>> ELSE Head(seqs) \o Concat(Tail(seqs))

\* ---- the server
\* With $orderby the messages of one answer that have a time come in that
\* order; with a $filter on the date they lie in the range; a $search answer
\* has neither property.
InOrder(seq, dir) ==
  \A i, j \in DOMAIN seq :
    (i < j /\ HasTime(seq[i]) /\ HasTime(seq[j]))
      => IF dir = "asc" THEN ServerTime(seq[i]) <= ServerTime(seq[j])
         ELSE IF dir = "desc" THEN ServerTime(seq[i]) >= ServerTime(seq[j])
         ELSE TRUE

InServerRange(v, seq) ==
  \A i \in DOMAIN seq :
    HasTime(seq[i])
      => RangeLo(v) <= ServerTime(seq[i]) /\ ServerTime(seq[i]) <= RangeHi(v)

DateVariants == {"do_email", "email_scan", "get_user_email", "get_user_email_search"}

\* the query strategy of a script: email_scan always searches, do_email as
\* configured, the get_user_email scripts filter
Strategies(v) ==
  IF v = "do_email" THEN {"filter", "search"}
  ELSE IF v = "email_scan" THEN {"search"}
  ELSE {"filter"}

\* the $orderby a request carries
SortOrders(v, api) ==
  IF v = "do_email" THEN (IF api = "filter" THEN {"asc"} ELSE {"none"})
  ELSE IF v = "email_scan" THEN {"none"}
  ELSE IF v = "get_user_email" THEN {"desc"}
  ELSE {"desc", "asc"}

\* the request carries a $filter on the date
SendsDateFilter(v, api) == v = "do_email" /\ api = "filter"

MaxStamps == 3

\* what the server returned for two folders: a list of timestamps and the
\* place where the first folder's messages end
FolderResults ==
  UNION { { <<SubSeq(all, 1, cut), SubSeq(all, cut + 1, Len(all))>> :
              cut \in 0..Len(all) } :
          all \in SeqsUpTo(StampPool, MaxStamps) }

InitDates ==
  /\ RunIdle
  /\ FilterIdle
  /\ StoreIdle
  /\ dt_variant \in DateVariants
  /\ dt_api \in Strategies(dt_variant)
  /\ dt_sort \in SortOrders(dt_variant, dt_api)
  /\ dt_folders \in
       { fs \in FolderResults :
           \A f \in DOMAIN fs :
             /\ InOrder(fs[f], dt_sort)
             /\ SendsDateFilter(dt_variant, dt_api) => InServerRange(dt_variant, fs[f]) }
  /\ dt_messages = Concat(dt_folders)
  /\ dt_pc = "fetched"
  /\ FolderIdle
  /\ RenderIdle

\* email_scan.fetch_emails: the client-side date check
EmailScanDateFilter ==
  /\ dt_pc = "fetched"
  /\ dt_variant = "email_scan"
  /\ dt_messages' = SelectSeq(dt_messages, LAMBDA s : in_date_range(dt_variant, s))
  /\ dt_pc' = "filtered"
  /\ UNCHANGED <<dt_variant, dt_api, dt_sort, dt_folders>>

\* email_scan.fetch_emails: the sort, the return and display_results; a
\* TypeError of the sort is caught nowhere
EmailScanSort ==
  /\ dt_pc = "filtered"
  /\ dt_variant = "email_scan"
  /\ IF SortRaises(dt_messages)
     THEN dt_pc' = "aborted" /\ UNCHANGED dt_messages
     ELSE dt_pc' = "shown" /\ dt_messages' = SortByKey(dt_messages)
  /\ UNCHANGED <<dt_variant, dt_api, dt_sort, dt_folders>>

\* get_user_email (no from= filter): the sort before the table is printed
GetUserEmailSort ==
  /\ dt_pc = "fetched"
  /\ dt_variant = "get_user_email"
  /\ IF SortRaises(dt_messages)
     THEN dt_pc' = "aborted" /\ UNCHANGED dt_messages
     ELSE dt_pc' = "shown" /\ dt_messages' = SortByKey(dt_messages)
  /\ UNCHANGED <<dt_variant, dt_api, dt_sort, dt_folders>>

\* do_email and get_user_email_search: the folders' messages are printed in
\* the order they were collected
ShowAsCollected ==
  /\ dt_pc = "fetched"
  /\ dt_variant \in {"do_email", "get_user_email_search"}
  /\ dt_pc' = "shown"
  /\ UNCHANGED <<dt_variant, dt_api, dt_sort, dt_folders, dt_messages>>

NextDates ==
  \/ EmailScanDateFilter /\ UNCHANGED <<runVars, filterVars, storeVars, folderVars, renderVars>>
  \/ EmailScanSort /\ UNCHANGED <<runVars, filterVars, storeVars, folderVars, renderVars>>
  \/ GetUserEmailSort /\ UNCHANGED <<runVars, filterVars, storeVars, folderVars, renderVars>>
  \/ ShowAsCollected /\ UNCHANGED <<runVars, filterVars, storeVars, folderVars, renderVars>>

SpecDates == InitDates /\ [][NextDates]_vars

\* ==== the claims on date range and order ==================================
\* the time a timestamp stands for: an offset-less one is UTC, a malformed or
\* missing one the minimum
TimeOf(stamp) ==
  IF stamp.kind = "aware" THEN Instant(stamp)
  ELSE IF stamp.kind = "naive" THEN stamp.wall
  ELSE DATETIME_MIN

Ascending(seq) ==
  \A i, j \in DOMAIN seq : i < j => TimeOf(seq[i]) <= TimeOf(seq[j])

\* C13: the message sequence handed to the presentation is in ascending
\* timestamp order, also when several folders are merged and when the
\* server's answers are not in order.
C13_ShownAscending ==
  dt_pc = "shown" => Ascending(dt_messages)

InConfiguredRange(v, stamp) ==
  /\ HasTime(stamp)
  /\ RangeLo(v) <= TimeOf(stamp)
  /\ TimeOf(stamp) <= RangeHi(v)

\* C17: whenever messages were retrieved with the search strategy, every
\* message of the result has a timestamp inside the configured range
\* [start 00:00:00, end 23:59:59].
C17_SearchResultInRange ==
  (dt_pc = "shown" /\ dt_api = "search")
    => \A i \in DOMAIN dt_messages : InConfiguredRange(dt_variant, dt_messages[i])

\* C17, amended: what holds of email_scan.fetch_emails, in Eastern time, once
\* its date check has run and whenever it returns a result.
C17_EmailScanResultInRange ==
  (dt_variant = "email_scan" /\ dt_pc \in {"filtered", "shown"})
    => \A i \in DOMAIN dt_messages : InConfiguredRange(dt_variant, dt_messages[i])

\* C17 witness: email_scan was sent a message of the last second of the range
\* and one of the second after it, kept the first, dropped the second and
\* handed the result to the presentation
C17_Witness ==
  /\ dt_variant = "email_scan"
  /\ dt_pc = "shown"
  /\ Concat(dt_folders) = <<Aware(104400, 0), Aware(104399, 0)>>
  /\ dt_messages = <<Aware(104399, 0)>>

\* C18: no timestamp, be it malformed, missing or without offset, aborts the
\* run, for any mix of such messages in one result set.
C18_NoTimestampAborts ==
  dt_pc # "aborted"

\* ==== folder resolution and the message requests ==========================
\* email_scan._get_folder_id: folder names (lower case) and their API aliases
well_known_folders ==
  << <<<<"i", "n", "b", "o", "x">>,
       <<"i", "n", "b", "o", "x">>>>,
     <<<<"d", "r", "a", "f", "t", "s">>,
       <<"d", "r", "a", "f", "t", "s">>>>,
     <<<<"s", "e", "n", "t", " ", "i", "t", "e", "m", "s">>,
       <<"s", "e", "n", "t", "i", "t", "e", "m", "s">>>>,
     <<<<"s", "e", "n", "t">>,
       <<"s", "e", "n", "t", "i", "t", "e", "m", "s">>>>,
     <<<<"d", "e", "l", "e", "t", "e", "d", " ", "i", "t", "e", "m", "s">>,
       <<"d", "e", "l", "e", "t", "e", "d", "i", "t", "e", "m", "s">>>>,
     <<<<"j", "u", "n", "k", " ", "e", "m", "a", "i", "l">>,
       <<"j", "u", "n", "k", "e", "m", "a", "i", "l">>>>,
     <<<<"j", "u", "n", "k">>,
       <<"j", "u", "n", "k", "e", "m", "a", "i", "l">>>>,
     <<<<"a", "r", "c", "h", "i", "v", "e">>,
       <<"a", "r", "c", "h", "i", "v", "e">>>>,
     <<<<"o", "u", "t", "b", "o", "x">>,
       <<"o", "u", "t", "b", "o", "x">>>> >>

\* do_email.normalize_folder_name: names with spaces and their API names
folder_mapping ==
  << <<<<"s", "e", "n", "t", " ", "i", "t", "e", "m", "s">>,
       <<"S", "e", "n", "t", "I", "t", "e", "m", "s">>>>,
     <<<<"d", "e", "l", "e", "t", "e", "d", " ", "i", "t", "e", "m", "s">>,
       <<"D", "e", "l", "e", "t", "e", "d", "I", "t", "e", "m", "s">>>>,
     <<<<"j", "u", "n", "k", " ", "e", "m", "a", "i", "l">>,
       <<"J", "u", "n", "k", "E", "m", "a", "i", "l">>>>,
     <<<<"c", "o", "n", "v", "e", "r", "s", "a", "t", "i", "o", "n", " ", "h", "i", "s", "t", "o", "r", "y">>,
       <<"C", "o", "n", "v", "e", "r", "s", "a", "t", "i", "o", "n", "H", "i", "s", "t", "o", "r", "y">>>> >>

\* the value a table of <<key, value>> pairs holds for a key; <<>> if none
Lookup(table, key) ==
  IF \E k \in DOMAIN table : table[k][1] = key
  THEN table[CHOOSE k \in DOMAIN table : table[k][1] = key][2]
  ELSE <<>>

HasKey(table, key) == \E k \in DOMAIN table : table[k][1] = key

NAME_INBOX_UPPER == <<"I", "N", "B", "O", "X">>

NAME_SENT == <<"S", "e", "n", "t">>

NAME_SENT_ITEMS == <<"S", "e", "n", "t", " ", "I", "t", "e", "m", "s">>

NAME_PROJECTS_LOWER == <<"p", "r", "o", "j", "e", "c", "t", "s">>

NAME_NOPE == <<"N", "o", "p", "e">>

DISPLAY_INBOX == <<"I", "n", "b", "o", "x">>

DISPLAY_SENT_ITEMS == <<"S", "e", "n", "t", " ", "I", "t", "e", "m", "s">>

DISPLAY_PROJECTS == <<"P", "r", "o", "j", "e", "c", "t", "s">>

ALIAS_INBOX == <<"i", "n", "b", "o", "x">>

ALIAS_SENTITEMS == <<"s", "e", "n", "t", "i", "t", "e", "m", "s">>

\* the folder names a user may ask for: names in another letter case than
\* the mailbox has them, a name no folder has, for email_scan two names of
\* its alias table, for get_user_email_search two spellings of one folder
RequestedNames(v) ==
  IF v = "email_scan"
  THEN { NAME_INBOX_UPPER, NAME_SENT, NAME_SENT_ITEMS, NAME_PROJECTS_LOWER, NAME_NOPE }
  ELSE IF v = "get_user_email_search"
  THEN { NAME_INBOX_UPPER, DISPLAY_INBOX, NAME_PROJECTS_LOWER, NAME_NOPE }
  ELSE { NAME_INBOX_UPPER, NAME_SENT_ITEMS, NAME_NOPE }

\* the folders of the mailbox: displayName, id (0 is no id), well-known alias
ServerFolders ==
  << [displayName |-> DISPLAY_INBOX, id |-> 1, alias |-> ALIAS_INBOX],
     [displayName |-> DISPLAY_SENT_ITEMS, id |-> 2, alias |-> ALIAS_SENTITEMS],
     [displayName |-> DISPLAY_PROJECTS, id |-> 3, alias |-> <<>>] >>

\* GET mailFolders/{alias} answered with 200: the id of that folder
AliasId(alias) ==
  IF \E k \in DOMAIN ServerFolders : ServerFolders[k].alias = alias
  THEN ServerFolders[CHOOSE k \in DOMAIN ServerFolders :
                       ServerFolders[k].alias = alias].id
  ELSE 0

\* the loop over the listing: the first folder whose displayName equals the
\* name, letter case ignored
ListingId(name) ==
  IF \E k \in DOMAIN ServerFolders :
       lower(ServerFolders[k].displayName) = lower(name)
  THEN ServerFolders[CHOOSE k \in DOMAIN ServerFolders :
                       /\ lower(ServerFolders[k].displayName) = lower(name)
                       /\ \A j \in 1..(k - 1) :
                            lower(ServerFolders[j].displayName) # lower(name)].id
  ELSE 0

\* _get_folder_id (email_scan) and get_folder_id without its cache
\* (get_user_email_search): aliasOk and listOk say whether the alias request
\* and the listing request are answered with 200; 0 is None
get_folder_id(v, name, aliasOk, listOk) ==
  LET folder_lower == lower(name)
      byAlias == IF v = "email_scan" /\ HasKey(well_known_folders, folder_lower)
                    /\ aliasOk
                 THEN AliasId(Lookup(well_known_folders, folder_lower))
                 ELSE 0
  IN  IF byAlias # 0 THEN byAlias
      ELSE IF listOk THEN ListingId(name)
      ELSE 0

\* DictSet on a list of pairs that takes every assignment as a new entry
DictSet_append(dict, key, value) == Append(dict, <<key, value>>)

\* folder_ids[fid] = fname on a dict kept as a sequence of <<id, name>>
DictSet(dict, key, value) ==
  IF \E k \in DOMAIN dict : dict[k][1] = key
  THEN [k \in DOMAIN dict |-> IF dict[k][1] = key THEN <<key, value>> ELSE dict[k]]
  ELSE Append(dict, <<key, value>>)

RecordFolder_always(dict, fid, name) == DictSet(dict, fid, name)

\* fetch_emails: `if fid: folder_ids[fid] = fname`, else the folder is skipped
RecordFolder(dict, fid, name) ==
  IF fid # 0 THEN DictSet(dict, fid, name) ELSE dict

normalize_folder_name(folder) ==
  IF HasKey(folder_mapping, lower(folder))
  THEN Lookup(folder_mapping, lower(folder))
  ELSE folder

\* a request to a message collection: by folder id, by folder name, or to
\* the collection of all messages of the mailbox
ById(id) == [kind |-> "id", id |-> id, name |-> <<>>]

ByName(name) == [kind |-> "name", id |-> 0, name |-> name]

AllMessages(id) == [kind |-> "all", id |-> id, name |-> <<>>]

\* name is the requested folder name the request is made for
Req(name, target, params) == [name |-> name, target |-> target, params |-> params]

\* ---- the parameters of the requests
EmailScanParams == {"$select", "$top", "$search"}

DoEmailParams(api, terms) ==
  IF api = "filter" THEN {"$select", "$top", "$filter", "$orderby"}
  ELSE IF terms > 0 THEN {"$select", "$top", "$search"}
  ELSE {"$select", "$top"}

\* use_search_for_this_folder without the test of maxdate
use_search_ignoring_maxdate(folder_id, args) ==
  folder_id # 0 /\ args.terms > 0 /\ ~args.mindate

\* get_user_email_search: the search branch is taken for a resolved folder
\* with a sender query and no dates
use_search_for_this_folder(folder_id, args) ==
  folder_id # 0 /\ args.terms > 0 /\ ~args.mindate /\ ~args.maxdate

SearchBranchParams == {"$select", "$orderby", "$filter", "$search"}

FilterBranchParams(args) ==
  {"$select", "$orderby"}
    \cup (IF args.mindate \/ args.maxdate \/ args.terms > 0 THEN {"$filter"} ELSE {})
    \cup (IF args.top THEN {"$top"} ELSE {})

\* the requests get_user_email_search sends for one folder
SearchRequests(name, folder_id, args) ==
  IF use_search_for_this_folder(folder_id, args)
  THEN <<Req(name, AllMessages(folder_id), SearchBranchParams)>>
  ELSE IF args.terms > 1
       THEN [k \in 1..args.terms |-> Req(name, ByName(name), FilterBranchParams(args))]
       ELSE <<Req(name, ByName(name), FilterBranchParams(args))>>

MaxFolderNames == 2

FolderVariants == {"email_scan", "get_user_email_search", "do_email"}

\* email_scan asks for both dates and always searches; do_email has an api
\* method and domain terms or none; get_user_email_search is started from
\* its command line, which always supplies maxdate, or its function
\* get_user_email is called with its own defaults
ArgsOf(v) ==
  IF v = "email_scan"
  THEN { [entry |-> "cli", api |-> "search", terms |-> t, mindate |-> TRUE,
          maxdate |-> TRUE, top |-> TRUE] : t \in {0, 1} }
  ELSE IF v = "do_email"
  THEN { [entry |-> "cli", api |-> a, terms |-> t, mindate |-> TRUE,
          maxdate |-> TRUE, top |-> TRUE] : a \in {"filter", "search"}, t \in {0, 1} }
  ELSE { a \in [entry : {"cli", "call"}, api : {"filter"}, terms : {0, 1, 2},
                mindate : BOOLEAN, maxdate : BOOLEAN, top : BOOLEAN] :
           a.entry = "cli" => a.maxdate }

InitFolders ==
  /\ RunIdle
  /\ FilterIdle
  /\ StoreIdle
  /\ DateIdle
  /\ RenderIdle
  /\ fo_variant \in FolderVariants
  /\ fo_args \in ArgsOf(fo_variant)
  /\ fo_folders \in SeqsUpTo(RequestedNames(fo_variant), MaxFolderNames) \ {<<>>}
  /\ fo_i = 1
  /\ fo_pc = IF fo_variant = "email_scan" THEN "resolve" ELSE "query"
  /\ fo_folder_ids = <<>>
  /\ fo_cache = {}
  /\ fo_lookups = <<>>
  /\ fo_requests = <<>>

\* one resolver call: its argument, the answers it got, its return value,
\* and the requests it issued (aliased: GET mailFolders/{alias}; listed: GET
\* mailFolders)
Lookups(name, aliasOk, listOk, ret, aliased, listed) ==
  [name |-> name, aliasOk |-> aliasOk, listOk |-> listOk, ret |-> ret,
   aliased |-> aliased, listed |-> listed]

\* get_folder_id._cache[cache_key] = folder_id with every resolved id dropped
CachePut_never(cache, name, fid) == cache

\* get_user_email_search.get_folder_id: a resolved id is stored under the
\* folder name as it was given; None is not stored
CachePut(cache, name, fid) ==
  IF fid # 0 THEN cache \cup {<<name, fid>>} ELSE cache

\* email_scan.fetch_emails, first loop: one folder name is resolved; after
\* the last one the fetch returns [] if no folder resolved
EmailScanResolve ==
  /\ fo_pc = "resolve"
  /\ fo_variant = "email_scan"
  /\ \E aliasOk, listOk \in BOOLEAN :
       LET fname == fo_folders[fo_i]
           fid == get_folder_id(fo_variant, fname, aliasOk, listOk)
           ids == RecordFolder(fo_folder_ids, fid, fname)
           aliased == HasKey(well_known_folders, lower(fname))
           listed == get_folder_id(fo_variant, fname, aliasOk, FALSE) = 0
       IN  /\ fo_lookups' = Append(fo_lookups,
                                   Lookups(fname, aliasOk, listOk, fid, aliased, listed))
           /\ fo_folder_ids' = ids
           /\ IF fo_i < Len(fo_folders)
              THEN fo_i' = fo_i + 1 /\ fo_pc' = "resolve"
              ELSE fo_i' = 1 /\ fo_pc' = IF Len(ids) = 0 THEN "done" ELSE "query"
  /\ UNCHANGED <<fo_variant, fo_args, fo_folders, fo_cache, fo_requests>>

\* email_scan.fetch_emails, second loop: the first request for one entry of
\* folder_ids
EmailScanQuery ==
  /\ fo_pc = "query"
  /\ fo_variant = "email_scan"
  /\ fo_requests' = Append(fo_requests,
                           Req(fo_folder_ids[fo_i][2], ById(fo_folder_ids[fo_i][1]),
                               EmailScanParams))
  /\ IF fo_i < Len(fo_folder_ids)
     THEN fo_i' = fo_i + 1 /\ fo_pc' = "query"
     ELSE fo_i' = fo_i /\ fo_pc' = "done"
  /\ UNCHANGED <<fo_variant, fo_args, fo_folders, fo_folder_ids, fo_cache, fo_lookups>>

\* get_user_email_search.get_user_email, loop body: the folder id is looked
\* up (in the cache first), and the folder is queried with the search branch
\* or the filter branch
SearchFolder ==
  /\ fo_pc = "query"
  /\ fo_variant = "get_user_email_search"
  /\ \E listOk \in BOOLEAN :
       LET fname == fo_folders[fo_i]
           cached == \E c \in fo_cache : c[1] = fname
           fid == IF cached THEN (CHOOSE c \in fo_cache : c[1] = fname)[2]
                  ELSE get_folder_id(fo_variant, fname, FALSE, listOk)
       IN  /\ cached => listOk    \* a cache hit sends no listing request
           /\ fo_lookups' = Append(fo_lookups,
                                   Lookups(fname, FALSE, listOk, fid, FALSE, ~cached))
           /\ fo_cache' = CachePut(fo_cache, fname, fid)
           /\ fo_requests' = fo_requests \o SearchRequests(fname, fid, fo_args)
  /\ IF fo_i < Len(fo_folders)
     THEN fo_i' = fo_i + 1 /\ fo_pc' = "query"
     ELSE fo_i' = fo_i /\ fo_pc' = "done"
  /\ UNCHANGED <<fo_variant, fo_args, fo_folders, fo_folder_ids>>

\* do_email: the first request of get_all_messages for one folder
DoEmailQuery ==
  /\ fo_pc = "query"
  /\ fo_variant = "do_email"
  /\ fo_requests' = Append(fo_requests,
                           Req(fo_folders[fo_i],
                               ByName(normalize_folder_name(fo_folders[fo_i])),
                               DoEmailParams(fo_args.api, fo_args.terms)))
  /\ IF fo_i < Len(fo_folders)
     THEN fo_i' = fo_i + 1 /\ fo_pc' = "query"
     ELSE fo_i' = fo_i /\ fo_pc' = "done"
  /\ UNCHANGED <<fo_variant, fo_args, fo_folders, fo_folder_ids, fo_cache, fo_lookups>>

NextFolders ==
  \/ EmailScanResolve /\ UNCHANGED <<runVars, filterVars, storeVars, dateVars, renderVars>>
  \/ EmailScanQuery /\ UNCHANGED <<runVars, filterVars, storeVars, dateVars, renderVars>>
  \/ SearchFolder /\ UNCHANGED <<runVars, filterVars, storeVars, dateVars, renderVars>>
  \/ DoEmailQuery /\ UNCHANGED <<runVars, filterVars, storeVars, dateVars, renderVars>>

SpecFolders == InitFolders /\ [][NextFolders]_vars

\* ==== the claims on folders and requests ==================================
\* C16: no request sent to a message collection carries $search together
\* with $filter or $orderby.
C16_SearchNeverWithFilterOrOrderby ==
  \A k \in DOMAIN fo_requests :
    "$search" \in fo_requests[k].params
      => /\ "$filter" \notin fo_requests[k].params
         /\ "$orderby" \notin fo_requests[k].params

\* the name is in the alias table of the script or is the displayName of a
\* folder of the mailbox, letter case ignored
NameKnown(v, name) ==
  \/ v = "email_scan" /\ HasKey(well_known_folders, lower(name))
  \/ \E k \in DOMAIN ServerFolders : lower(ServerFolders[k].displayName) = lower(name)

\* the case of the claim: no match at either stage, or the lookup failed
NotFoundCase(v, l) == ~NameKnown(v, l.name) \/ (~l.aliasOk /\ ~l.listOk)

ResolvedElsewhere(name) ==
  \E k \in DOMAIN fo_lookups : fo_lookups[k].name = name /\ fo_lookups[k].ret # 0

RequestedFor(name) == \E r \in DOMAIN fo_requests : fo_requests[r].name = name

QueriedId(id) == \E r \in DOMAIN fo_requests : fo_requests[r].target.id = id

\* in the not-found case the resolver returns None
ResolverReturnsNotFound ==
  \A k \in DOMAIN fo_lookups :
    NotFoundCase(fo_variant, fo_lookups[k]) => fo_lookups[k].ret = 0

\* every folder that resolved is queried by the end of the loop
ResolvedAreQueried ==
  fo_pc = "done"
    => \A k \in DOMAIN fo_lookups :
         fo_lookups[k].ret # 0
           => RequestedFor(fo_lookups[k].name) \/ QueriedId(fo_lookups[k].ret)

Refreshes401 == minted - (IF tm.ok THEN tm.reqs ELSE 0)

\* the token the identity endpoint issued last
LastMinted == minted + 1

C25_LaterRequestsCarryRefreshedToken ==
  (CanRequest /\ Refreshes401 > 0) => Request.tok = LastMinted

\* ==== the claims on the message ceiling ====================================
\* the runs with a 1000-message ceiling: email_scan, and get_user_email
\* without a count (with a date or sender filter it sends $top=1000, which
\* the server takes as the page size: every page of the server's content
\* has at most 1000 messages)
HasMessageCeiling ==
  variant = "email_scan" \/ (variant = "get_user_email" /\ effective_top_none)

\* C24: in the single-pass variants with a 1000-message ceiling, at most 1000
\* messages of any one folder enter the result: email_scan.fetch_emails keeps
\* at most 1000 messages per folder, and get_user_email run with a date or
\* sender filter and no count retrieves at most 1000 messages per folder.
C24_AtMostCapPerFolder ==
  (HasMessageCeiling /\ fres.pair # 0) => Len(fres.msgs) <= MSG_CAP

C29_EachResolvedIdQueriedOnce ==
  fo_variant = "email_scan"
    => /\ \A r, q \in DOMAIN fo_requests :
            fo_requests[r].target = fo_requests[q].target => r = q
       /\ \A r \in DOMAIN fo_requests :
            /\ fo_requests[r].target.kind = "id"
            /\ \E k \in DOMAIN fo_lookups :
                 fo_lookups[k].ret = fo_requests[r].target.id
       /\ fo_pc = "done"
            => \A k \in DOMAIN fo_lookups :
                 fo_lookups[k].ret # 0 => QueriedId(fo_lookups[k].ret)

\* C29 witness: Sent and Sent Items were selected, both resolved to the
\* identifier of the sent-items folder, and the run made one request
C29_Witness ==
  /\ fo_variant = "email_scan"
  /\ fo_pc = "done"
  /\ fo_folders = <<NAME_SENT, NAME_SENT_ITEMS>>
  /\ fo_lookups[1].ret = 2
  /\ fo_lookups[2].ret = 2
  /\ Len(fo_requests) = 1
  /\ fo_requests[1].target = ById(2)

HasAddressOutsideOrg(msg) ==
  \E k \in DOMAIN AllRecipients(msg) :
    LET address == AllRecipients(msg)[k]
    IN  Len(address) > 0 /\ lower(DomainOf(address)) # ORG_DOMAIN

\* C28: in do_email's main run, every message that is printed or written to
\* messages.csv has at least one To or Cc address outside the organizational
\* domain, whichever strategy (filter or search) fetched it and whether or
\* not domain terms are configured.
C28_PrintedHaveExternalRecipient ==
  (fl_variant = "do_email" /\ fl_pc = "done")
    => \A i \in DOMAIN fl_messages : HasAddressOutsideOrg(fl_messages[i])

\* C28 witness: a search-mode run without domain terms fetched two messages,
\* dropped the one whose recipients are all internal and printed the other
C28_Witness ==
  /\ fl_variant = "do_email"
  /\ fl_pc = "done"
  /\ fl_api = "search"
  /\ Len(fl_domains) = 0
  /\ Len(fl_input) = 2
  /\ ~HasAddressOutsideOrg(fl_input[1])
  /\ fl_messages = <<fl_input[2]>>

\* ==== from the pages of one folder to the printed table ====================
\* One mailbox and one folder: the fetcher follows the pages, the main
\* routine filters and tags the messages, and the table is printed.  do_email
\* runs with --api filter (the strategy that takes a date range); every
\* timestamp carries an offset.
FOLDER_SENTITEMS == <<"S", "e", "n", "t", "I", "t", "e", "m", "s">>

SEPARATOR == <<";", " ">>

\* a message as the server returns it: msg.get("_folder", "") is empty
TimedMsg(to, cc, fromAddr, fromName, time) ==
  [to |-> to, cc |-> cc, from_addr |-> fromAddr, from_name |-> fromName,
   time |-> time, folder |-> <<>>]

RenderPool ==
  { TimedMsg(<<ADDR_ACME>>, <<>>, ADDR_OTHER, NAME_BOB, 2),
    TimedMsg(<<ADDR_ORG>>, <<ADDR_ACME_UPPER>>, ADDR_ORG, <<>>, 1),
    TimedMsg(<<ADDR_ORG>>, <<>>, ADDR_ACME, <<>>, 3),
    TimedMsg(<<ADDR_OTHER, ADDR_ORG>>, <<>>, ADDR_ORG, NAME_BOB, 1) }

MaxRows == 3

\* the number of messages the server puts on one page
PageLen == 2

RenderVariants == {"do_email", "email_do", "get_user_email"}

\* the folder names of the configuration
RenderFolders(v) ==
  IF v = "do_email" THEN {FOLDER_SENTITEMS, NAME_SENT_ITEMS, DISPLAY_INBOX}
  ELSE IF v = "email_do" THEN {FOLDER_SENTITEMS, DISPLAY_INBOX}
  ELSE {DISPLAY_INBOX}

\* the terms of the configuration: domains as load_filter_domains / the
\* --input file give them, from= terms of get_user_email
RenderTerms(v) ==
  IF v = "do_email"
  THEN { user_domains(v, source, <<TERM_ACME_UPPER>>) :
           source \in {"config", "input_file"} }
  ELSE IF v = "email_do" THEN { user_domains(v, "config", <<TERM_ACME_UPPER>>) }
  ELSE { <<>>, <<TERM_BOB>> }

\* "; ".join(list)
RECURSIVE Join(_, _)
Join(list, sep) ==
  IF Len(list) = 0 THEN <<>>
  ELSE IF Len(list) = 1 THEN list[1]
  ELSE list[1] \o sep \o Join(Tail(list), sep)

\* get_contact: the recipients for a message tagged SentItems (do_email
\* leaves out the addresses that contain the organizational domain), the
\* sender for any other tag; get_user_email prints the sender address
get_contact(v, msg) ==
  IF v # "get_user_email" /\ msg.folder = FOLDER_SENTITEMS
  THEN IF v = "do_email"
       THEN Join(SelectSeq(msg.to, LAMBDA a : ~Contains(ORG_DOMAIN, lower(a))),
                 SEPARATOR)
       ELSE Join(msg.to, SEPARATOR)
  ELSE msg.from_addr

\* msg["_folder"] = folder for every message of the list
Tag(messages, folder) ==
  [i \in DOMAIN messages |-> [messages[i] EXCEPT !.folder = folder]]

\* print_message_table and the table loop of get_user_email: one row per
\* message, enumerate(messages, 1)
print_message_table(v, messages) ==
  [i \in DOMAIN messages |->
     [num |-> i, folder |-> messages[i].folder, time |-> messages[i].time,
      contact |-> get_contact(v, messages[i]), msg |-> messages[i]]]

\* messages.sort(key=_parse_dt): ascending and stable
RECURSIVE InsertByTime(_, _)
InsertByTime(x, sorted) ==
  IF Len(sorted) = 0 THEN <<x>>
  ELSE IF x.time < Head(sorted).time THEN <<x>> \o sorted
  ELSE <<Head(sorted)>> \o InsertByTime(x, Tail(sorted))

RECURSIVE SortByTime(_)
SortByTime(seq) ==
  IF Len(seq) = 0 THEN <<>>
  ELSE InsertByTime(seq[Len(seq)], SortByTime(SubSeq(seq, 1, Len(seq) - 1)))

\* the value list of page p and whether the answer has a next link
RenderPage(server, p) ==
  SubSeq(server, (p - 1) * PageLen + 1,
         IF p * PageLen < Len(server) THEN p * PageLen ELSE Len(server))

RenderNextLink(server, p) == IF p * PageLen < Len(server) THEN p + 1 ELSE 0

InitRender ==
  /\ RunIdle
  /\ FilterIdle
  /\ StoreIdle
  /\ DateIdle
  /\ FolderIdle
  /\ re_variant \in RenderVariants
  /\ re_domains \in RenderTerms(re_variant)
  /\ re_folder \in RenderFolders(re_variant)
  /\ re_server \in SeqsUpTo(RenderPool, MaxRows)
  /\ re_url = 1
  /\ re_all = <<>>
  /\ re_messages = <<>>
  /\ re_rows = <<>>
  /\ re_pc = "fetch"

\* one iteration of the fetcher's loop, answered with 200: the page is
\* appended and the next link is taken; without a link the fetcher returns
RenderFetchPage ==
  /\ re_pc = "fetch"
  /\ re_url # 0
  /\ re_all' = re_all \o RenderPage(re_server, re_url)
  /\ re_url' = RenderNextLink(re_server, re_url)
  /\ re_pc' = IF re_url' = 0 THEN "fetched" ELSE "fetch"
  /\ UNCHANGED <<re_variant, re_domains, re_folder, re_server, re_messages, re_rows>>

\* do_email main loop body: the domain filter, the tags, the merge
RenderDoEmailFolder ==
  /\ re_pc = "fetched"
  /\ re_variant = "do_email"
  /\ LET messages == IF Len(re_domains) > 0
                     THEN filter_by_domains(re_variant, re_all, re_domains)
                     ELSE re_all
     IN  re_messages' = re_messages \o Tag(messages, re_folder)
  /\ re_pc' = "merged"
  /\ UNCHANGED <<re_variant, re_domains, re_folder, re_server, re_url, re_all, re_rows>>

\* do_email after the loops: the external-recipient filter and the table
RenderDoEmailFinal ==
  /\ re_pc = "merged"
  /\ re_variant = "do_email"
  /\ LET final == SelectSeq(re_messages, has_external_recipients)
     IN  /\ re_messages' = final
         /\ re_rows' = print_message_table(re_variant, final)
  /\ re_pc' = "done"
  /\ UNCHANGED <<re_variant, re_domains, re_folder, re_server, re_url, re_all>>

\* email_do: the loop body (filter, tags, merge) and the table after it
RenderEmailDo ==
  /\ re_pc = "fetched"
  /\ re_variant = "email_do"
  /\ LET messages == IF Len(re_domains) > 0
                     THEN filter_by_domains(re_variant, re_all, re_domains)
                     ELSE re_all
         final == re_messages \o Tag(messages, re_folder)
     IN  /\ re_messages' = final
         /\ re_rows' = print_message_table(re_variant, final)
  /\ re_pc' = "done"
  /\ UNCHANGED <<re_variant, re_domains, re_folder, re_server, re_url, re_all>>

\* get_user_email after the fetch: with from= terms the sender filter runs
\* and nothing else; the sort and the table are in the else branch
RenderGetUserEmail ==
  /\ re_pc = "fetched"
  /\ re_variant = "get_user_email"
  /\ IF Len(re_domains) > 0
     THEN /\ re_messages' = sender_filter(re_all, re_domains)
          /\ re_rows' = <<>>
     ELSE /\ re_messages' = SortByTime(re_all)
          /\ re_rows' = print_message_table(re_variant, re_messages')
  /\ re_pc' = "done"
  /\ UNCHANGED <<re_variant, re_domains, re_folder, re_server, re_url, re_all>>

NextRender ==
  \/ RenderFetchPage /\ UNCHANGED <<runVars, filterVars, storeVars, dateVars, folderVars>>
  \/ RenderDoEmailFolder /\ UNCHANGED <<runVars, filterVars, storeVars, dateVars, folderVars>>
  \/ RenderDoEmailFinal /\ UNCHANGED <<runVars, filterVars, storeVars, dateVars, folderVars>>
  \/ RenderEmailDo /\ UNCHANGED <<runVars, filterVars, storeVars, dateVars, folderVars>>
  \/ RenderGetUserEmail /\ UNCHANGED <<runVars, filterVars, storeVars, dateVars, folderVars>>

SpecRender == InitRender /\ [][NextRender]_vars

\* ---- claims on the printed table -------------------------------------------
Rendered == re_pc = "done"

\* the messages of the rows, without the tags the main routine added
RowMessages == [i \in DOMAIN re_rows |-> [re_rows[i].msg EXCEPT !.folder = <<>>]]

RowsNumberedFromOne == \A i \in DOMAIN re_rows : re_rows[i].num = i

\* the addresses of the To list outside the organizational domain
ExternalTo(msg) == SelectSeq(msg.to, LAMBDA a : DomainOf(lower(a)) # ORG_DOMAIN)

\* C27: in do_email a row of the sent-items folder, whether the configuration
\* names it "SentItems" or "Sent Items", shows the external To recipients as
\* the contact, and a row of any other folder shows the sender.
C27_ContactBySentItemsFolder ==
  (re_variant = "do_email" /\ Rendered) =>
    \A i \in DOMAIN re_rows :
      re_rows[i].contact =
        IF normalize_folder_name(re_folder) = FOLDER_SENTITEMS
        THEN Join(ExternalTo(re_rows[i].msg), SEPARATOR)
        ELSE re_rows[i].msg.from_addr

\* C21: with a list of domain terms configured, the rows of do_email and
\* email_do are exactly the messages of all fetched pages that have a To or
\* Cc address matching a term, in order, one row each, numbered from 1.
C21_RowsAreMatchingMessages ==
  (re_variant \in {"do_email", "email_do"} /\ Rendered /\ Len(re_domains) > 0) =>
    /\ re_all = re_server
    /\ RowMessages = SelectSeq(re_server, LAMBDA m : RecipientMatches(m, re_domains))
    /\ RowsNumberedFromOne

Count(m, seq) == Cardinality({i \in DOMAIN seq : seq[i] = m})

\* C26: get_user_email prints one row for every message left after the
\* optional sender filter, numbered from 1, in ascending order of the
\* timestamp, with and without a from= filter.
C26_OneRowPerKeptMessage ==
  (re_variant = "get_user_email" /\ Rendered) =>
    LET kept == IF Len(re_domains) > 0 THEN sender_filter(re_all, re_domains)
                ELSE re_all
    IN  /\ Len(re_rows) = Len(kept)
        /\ \A m \in RenderPool : Count(m, RowMessages) = Count(m, kept)
        /\ RowsNumberedFromOne
        /\ \A i, j \in DOMAIN re_rows : i < j => re_rows[i].time <= re_rows[j].time

====
